---- MODULE Spec2Model ----
(***************************************************************************)
(* JWT verification and key caching (shared/auth/jwt.go) and the request   *)
(* gate built on it (shared/auth/middleware.go).                            *)
(*                                                                           *)
(* Strings that the code inspects character by character (the Authorization *)
(* header) are sequences of one-character strings.  A compact token is the  *)
(* sequence of its header and payload fields, in the order                  *)
(*   <<kid, alg, sig, token_use, iss, exp, email, username, sub>>           *)
(* where a field is "-" when the token does not carry it and "#" when it    *)
(* carries a value of the wrong JSON type.  sig names the key pair that     *)
(* produced the signature.                                                   *)
(***************************************************************************)
EXTENDS Integers, Sequences, FiniteSets, TLC

VARIABLES issuer, keys, clock, pc, call, crashed, okKids, recording, failedKids, goneKids,
          messages, mutex, mpc, mcall, answered, conv, validators, last,
          users, upc, ucall

\* the in-memory message store, the handlers of the message service and the
\* messages that a 201 response has handed out
msgVars == <<messages, mutex, mpc, mcall, answered>>

\* the validators a process has built, and the last operation on them
instVars == <<validators, last>>

\* the in-memory user store and the handlers of the user service
userVars == <<users, upc, ucall>>

vars == <<issuer, keys, clock, pc, call, crashed, okKids, recording, failedKids, goneKids,
          msgVars, conv, instVars, userVars>>

(***************************************************************************)
(* Bounds                                                                    *)
(***************************************************************************)
\* the clock runs from FirstTick to MaxTick, in ticks of 1/TicksPerSec second
MaxTick == 4

TicksPerSec == 2

\* the number of messages the store takes
MaxMessages == 2

\* the longest exponent byte string handed to the key conversion
MaxExpLen == 9

\* the number of validators a process builds
MaxValidators == 2

\* the clock starts one second after the epoch
FirstTick == TicksPerSec

Goroutines == {1, 2}

Absent == "-"

WrongType == "#"

(***************************************************************************)
(* encoding/base64 RawURLEncoding.DecodeString, math/big SetBytes           *)
(***************************************************************************)
\* the base64url alphabet
Alphabet ==
    <<"A", "B", "C", "D", "E", "F", "G", "H", "I", "J", "K", "L", "M",
      "N", "O", "P", "Q", "R", "S", "T", "U", "V", "W", "X", "Y", "Z",
      "a", "b", "c", "d", "e", "f", "g", "h", "i", "j", "k", "l", "m",
      "n", "o", "p", "q", "r", "s", "t", "u", "v", "w", "x", "y", "z",
      "0", "1", "2", "3", "4", "5", "6", "7", "8", "9", "-", "_">>

\* the value of a character, -1 for a character outside the alphabet
B64Val(c) ==
    IF \E i \in 1..64 : Alphabet[i] = c
    THEN (CHOOSE i \in 1..64 : Alphabet[i] = c) - 1
    ELSE -1

RECURSIVE DecodeQuanta(_)
\* the bytes of a string of valid characters; a lone trailing character is
\* reported by the caller
DecodeQuanta(s) ==
    IF Len(s) = 0 THEN <<>>
    ELSE IF Len(s) >= 4 THEN
        LET v == B64Val(s[1]) * 262144 + B64Val(s[2]) * 4096
                 + B64Val(s[3]) * 64 + B64Val(s[4])
        IN  <<v \div 65536, (v \div 256) % 256, v % 256>>
            \o DecodeQuanta(SubSeq(s, 5, Len(s)))
    ELSE IF Len(s) = 3 THEN
        LET v == B64Val(s[1]) * 4096 + B64Val(s[2]) * 64 + B64Val(s[3])
        IN  <<v \div 1024, (v \div 4) % 256>>
    ELSE \* Len(s) = 2
        LET v == B64Val(s[1]) * 64 + B64Val(s[2])
        IN  <<v \div 16>>

DecodeString(s) ==
    IF (\E i \in 1..Len(s) : B64Val(s[i]) < 0) \/ Len(s) % 4 = 1
    THEN [ok |-> FALSE, bytes |-> <<>>]
    ELSE [ok |-> TRUE, bytes |-> DecodeQuanta(s)]

RECURSIVE EncodeToString(_)
\* RawURLEncoding.EncodeToString, by which a provider writes n and e
EncodeToString(b) ==
    IF Len(b) = 0 THEN <<>>
    ELSE IF Len(b) >= 3 THEN
        <<Alphabet[(b[1] \div 4) + 1],
          Alphabet[(b[1] % 4) * 16 + (b[2] \div 16) + 1],
          Alphabet[(b[2] % 16) * 4 + (b[3] \div 64) + 1],
          Alphabet[(b[3] % 64) + 1]>>
            \o EncodeToString(SubSeq(b, 4, Len(b)))
    ELSE IF Len(b) = 2 THEN
        <<Alphabet[(b[1] \div 4) + 1],
          Alphabet[(b[1] % 4) * 16 + (b[2] \div 16) + 1],
          Alphabet[(b[2] % 16) * 4 + 1]>>
    ELSE
        <<Alphabet[(b[1] \div 4) + 1], Alphabet[(b[1] % 4) * 16 + 1]>>

RECURSIVE SetBytes(_)
\* big.Int.SetBytes: the unsigned big-endian integer, kept as its byte
\* string without leading zero bytes
SetBytes(b) ==
    IF Len(b) > 0 /\ b[1] = 0 THEN SetBytes(Tail(b)) ELSE b

RECURSIVE Incr(_)
\* the byte string of the integer plus one
Incr(b) ==
    IF Len(b) = 0 THEN <<1>>
    ELSE IF b[Len(b)] < 255 THEN [b EXCEPT ![Len(b)] = @ + 1]
    ELSE Incr(SubSeq(b, 1, Len(b) - 1)) \o <<0>>

\* big.Int.Int64 followed by int(), an int of 64 bits: the low 64 bits of
\* the integer read in two's complement.  A value below zero is written as
\* -1 followed by the bytes of its magnitude.
Int64(b) ==
    LET low == IF Len(b) > 8 THEN SubSeq(b, Len(b) - 7, Len(b)) ELSE b
    IN  IF Len(low) = 8 /\ low[1] >= 128
        THEN <<-1>> \o SetBytes(Incr([i \in 1..8 |-> 255 - low[i]]))
        ELSE SetBytes(low)

\* a conversion into an exponent field of 32 bits
jwkToRSAPublicKey_Int32(jwk) ==
    LET n == DecodeString(jwk.n)
        e == DecodeString(jwk.e)
        b == SetBytes(e.bytes)
    IN  IF ~n.ok THEN [err |-> "failed to decode modulus", key |-> [N |-> <<>>, E |-> <<>>]]
        ELSE IF ~e.ok THEN [err |-> "failed to decode exponent", key |-> [N |-> <<>>, E |-> <<>>]]
        ELSE [err |-> "",
              key |-> [N |-> SetBytes(n.bytes),
                       E |-> IF Len(b) > 4 THEN SetBytes(SubSeq(b, Len(b) - 3, Len(b)))
                             ELSE b]]

\* a conversion that decodes the exponent before the modulus
jwkToRSAPublicKey_ExponentFirst(jwk) ==
    LET n == DecodeString(jwk.n)
        e == DecodeString(jwk.e)
    IN  IF ~e.ok THEN [err |-> "failed to decode exponent", key |-> [N |-> <<>>, E |-> <<>>]]
        ELSE IF ~n.ok THEN [err |-> "failed to decode modulus", key |-> [N |-> <<>>, E |-> <<>>]]
        ELSE [err |-> "",
              key |-> [N |-> SetBytes(n.bytes), E |-> Int64(SetBytes(e.bytes))]]

jwkToRSAPublicKey(jwk) ==
    LET n == DecodeString(jwk.n)
        e == DecodeString(jwk.e)
    IN  IF ~n.ok THEN [err |-> "failed to decode modulus", key |-> [N |-> <<>>, E |-> <<>>]]
        ELSE IF ~e.ok THEN [err |-> "failed to decode exponent", key |-> [N |-> <<>>, E |-> <<>>]]
        ELSE [err |-> "",
              key |-> [N |-> SetBytes(n.bytes), E |-> Int64(SetBytes(e.bytes))]]

(***************************************************************************)
(* The identity provider: key pairs and what the key-set endpoint answers   *)
(***************************************************************************)
JWK(kid, n, e) == [kid |-> kid, n |-> n, e |-> e]

AQAB == <<"A", "Q", "A", "B">>

\* the published record of key pair M1 / M2 under key id kid
JwkOf(kid, m) ==
    IF m = "M1" THEN JWK(kid, <<"A", "Q">>, AQAB)
    ELSE JWK(kid, <<"A", "g">>, AQAB)

\* the public key of a key pair, as crypto/rsa holds it
PubKey(m) ==
    IF m = "M1" THEN [N |-> <<1>>, E |-> <<1, 0, 1>>]
    ELSE [N |-> <<2>>, E |-> <<1, 0, 1>>]

Response(status, transportOK, jsonOK, keyset) ==
    [status |-> status, transportOK |-> transportOK, jsonOK |-> jsonOK, keys |-> keyset]

Responses ==
    { Response(200, TRUE, TRUE, <<JwkOf("K1", "M1"), JwkOf("K2", "M2")>>),
      Response(200, TRUE, TRUE, <<JwkOf("K2", "M2")>>),
      Response(200, TRUE, TRUE, <<JwkOf("K1", "M2")>>),
      Response(500, TRUE, TRUE, <<JwkOf("K1", "M1"), JwkOf("K2", "M2")>>),
      Response(200, FALSE, TRUE, <<>>),
      Response(204, TRUE, FALSE, <<>>),
      Response(301, TRUE, TRUE, <<JwkOf("K1", "M1")>>),
      Response(404, TRUE, TRUE, <<JwkOf("K1", "M1")>>),
      Response(200, TRUE, FALSE, <<>>),
      Response(200, TRUE, TRUE, <<JwkOf("K1", "M1"), JwkOf("K1", "M2")>>),
      Response(200, TRUE, TRUE, <<JWK("K1", <<"!">>, AQAB)>>),
      Response(200, TRUE, TRUE, <<JWK("K1", <<"A", "Q">>, <<"A">>)>>),
      Response(200, TRUE, TRUE, <<JWK("K1", <<"A">>, <<"A", "Q", "=", "=">>)>>) }

(***************************************************************************)
(* Tokens and Authorization headers presented by clients                     *)
(***************************************************************************)
Tok(kid, alg, sig, tu, iss, exp, email, username, sub) ==
    <<kid, alg, sig, tu, iss, exp, email, username, sub>>

KidValues == {"K1", "K2", Absent, WrongType}

AlgValues == {"RS256", "HS256", "none", "ZZ"}

SigValues == {"M1", "M2"}

UseValues == {"access", "id", Absent, WrongType}

IssValues == {"I1", "I2", Absent, WrongType}

ExpValues == {"1", "2", "3", Absent, WrongType}

IdValues == {"u", Absent, WrongType}

\* every header shape, with claims that can pass the policy
HeaderTokens ==
    { Tok(k, a, s, "access", "I1", x, Absent, Absent, Absent) :
        k \in KidValues, a \in AlgValues, s \in SigValues, x \in {"2", "3"} }

\* every payload shape, in tokens whose header can reach the policy checks
ClaimTokens ==
    { Tok(k, "RS256", s, u, i, x, Absent, Absent, Absent) :
        k \in {"K1"}, s \in SigValues, u \in UseValues, i \in IssValues,
        x \in ExpValues }

\* every shape of the identity claims, in otherwise acceptable tokens
IdentityTokens ==
    { Tok("K1", "RS256", "M1", "access", "I1", "3", e, n, s) :
        e \in IdValues, n \in IdValues, s \in IdValues }

Tokens == HeaderTokens \cup ClaimTokens \cup IdentityTokens

Bearer == <<"B", "e", "a", "r", "e", "r", " ">>

Headers ==
    { <<>>,
      <<"B", "a", "s", "i", "c", " ", "x", "y", "z">>,
      <<"b", "e", "a", "r", "e", "r", " ">>
          \o Tok("K1", "RS256", "M1", "access", "I1", "3", Absent, Absent, Absent),
      <<"B", "e", "a", "r", "e", "r">>,
      Bearer,
      Bearer \o <<"x", "y", "z">> }
    \cup { Bearer \o t : t \in Tokens }

\* the requests of the concurrent specification
ConcHeaders ==
    { Bearer \o Tok(k, "RS256", s, u, "I1", "3", Absent, Absent, Absent) :
        k \in {"K1", "K2"}, s \in SigValues, u \in {"access", "id"} }

(***************************************************************************)
(* strings.HasPrefix, strings.TrimPrefix                                     *)
(***************************************************************************)
\* a prefix test that compares the lengths only
HasPrefix_LengthOnly(s, p) == Len(s) >= Len(p)

HasPrefix(s, p) == Len(s) >= Len(p) /\ SubSeq(s, 1, Len(p)) = p

TrimPrefix(s, p) == IF HasPrefix(s, p) THEN SubSeq(s, Len(p) + 1, Len(s)) ELSE s

(***************************************************************************)
(* golang-jwt/jwt/v5                                                         *)
(***************************************************************************)
\* the signing methods registered with the library
RegisteredMethods == {"RS256", "HS256", "none"}

\* the methods of type *jwt.SigningMethodRSA
RSAMethods == {"RS256"}

NoClaims ==
    [token_use |-> Absent, iss |-> Absent, exp |-> Absent,
     email |-> Absent, username |-> Absent, sub |-> Absent]

\* Parser.ParseUnverified: the three segments split and decoded, the method
\* looked up; no signature check
ParseUnverified(t) ==
    IF Len(t) # 9 \/ t[2] \notin RegisteredMethods
    THEN [ok |-> FALSE, kid |-> Absent, alg |-> Absent, sig |-> Absent, claims |-> NoClaims]
    ELSE [ok |-> TRUE, kid |-> t[1], alg |-> t[2], sig |-> t[3],
          claims |-> [token_use |-> t[4], iss |-> t[5], exp |-> t[6],
                      email |-> t[7], username |-> t[8], sub |-> t[9]]]

\* a value.(string)
IsString(v) == v # Absent /\ v # WrongType

\* a value.(float64)
IsNumber(v) == v \in {"0", "1", "2", "3", "4", "5"}

NumVal(v) ==
    CASE v = "0" -> 0
      [] v = "1" -> 1
      [] v = "2" -> 2
      [] v = "3" -> 3
      [] v = "4" -> 4
      [] v = "5" -> 5
      [] OTHER -> 0

\* time.Now().Unix()
Unix(ticks) == ticks \div TicksPerSec

\* jwt.Parse with a key function that returns the key for every method
JwtParse_NoMethodCheck(p, key, ticks) ==
    IF PubKey(p.sig) # key
    THEN [err |-> "signature is invalid", keyUsed |-> TRUE]
    ELSE IF p.claims.exp # Absent /\ ~IsNumber(p.claims.exp)
    THEN [err |-> "invalid type for claim", keyUsed |-> TRUE]
    ELSE IF p.claims.exp # Absent /\ ~(ticks < NumVal(p.claims.exp) * TicksPerSec)
    THEN [err |-> "token is expired", keyUsed |-> TRUE]
    ELSE [err |-> "", keyUsed |-> TRUE]

\* jwt.Parse with the validation of the registered claims switched off
JwtParse_NoClaimsValidation(p, key, ticks) ==
    IF p.alg \notin RSAMethods
    THEN [err |-> "unexpected signing method", keyUsed |-> FALSE]
    ELSE IF PubKey(p.sig) # key
    THEN [err |-> "signature is invalid", keyUsed |-> TRUE]
    ELSE [err |-> "", keyUsed |-> TRUE]

\* the key function handed to jwt.Parse, then Parser.ParseWithClaims: method
\* check, signature verification against the key, validation of the
\* registered claims (exp, when present, must be a number after now; the
\* tokens carry no nbf or iat)
JwtParse(p, key, ticks) ==
    IF p.alg \notin RSAMethods
    THEN [err |-> "unexpected signing method", keyUsed |-> FALSE]
    ELSE IF PubKey(p.sig) # key
    THEN [err |-> "signature is invalid", keyUsed |-> TRUE]
    ELSE IF p.claims.exp # Absent /\ ~IsNumber(p.claims.exp)
    THEN [err |-> "invalid type for claim", keyUsed |-> TRUE]
    ELSE IF p.claims.exp # Absent /\ ~(ticks < NumVal(p.claims.exp) * TicksPerSec)
    THEN [err |-> "token is expired", keyUsed |-> TRUE]
    ELSE [err |-> "", keyUsed |-> TRUE]

\* ValidateToken without the token_use check
VerifyAndCheck_NoUseCheck(p, key, ticks, iss) ==
    LET parsed == JwtParse(p, key, ticks)
        c == p.claims
    IN  IF parsed.err # ""
        THEN [err |-> "failed to validate token", cause |-> parsed.err,
              keyUsed |-> parsed.keyUsed, claims |-> NoClaims]
        ELSE IF iss # "" /\ (~IsString(c.iss) \/ c.iss # iss)
        THEN [err |-> "invalid issuer", cause |-> "", keyUsed |-> TRUE, claims |-> NoClaims]
        ELSE IF ~IsNumber(c.exp)
        THEN [err |-> "token missing exp claim", cause |-> "", keyUsed |-> TRUE, claims |-> NoClaims]
        ELSE IF Unix(ticks) > NumVal(c.exp)
        THEN [err |-> "token has expired", cause |-> "", keyUsed |-> TRUE, claims |-> NoClaims]
        ELSE [err |-> "", cause |-> "", keyUsed |-> TRUE, claims |-> c]

\* ValidateToken comparing the issuer even when none is configured
VerifyAndCheck_AlwaysIssuer(p, key, ticks, iss) ==
    LET parsed == JwtParse(p, key, ticks)
        c == p.claims
    IN  IF parsed.err # ""
        THEN [err |-> "failed to validate token", cause |-> parsed.err,
              keyUsed |-> parsed.keyUsed, claims |-> NoClaims]
        ELSE IF ~IsString(c.token_use) \/ c.token_use # "access"
        THEN [err |-> "invalid token use", cause |-> "", keyUsed |-> TRUE, claims |-> NoClaims]
        ELSE IF ~IsString(c.iss) \/ c.iss # iss
        THEN [err |-> "invalid issuer", cause |-> "", keyUsed |-> TRUE, claims |-> NoClaims]
        ELSE IF ~IsNumber(c.exp)
        THEN [err |-> "token missing exp claim", cause |-> "", keyUsed |-> TRUE, claims |-> NoClaims]
        ELSE IF Unix(ticks) > NumVal(c.exp)
        THEN [err |-> "token has expired", cause |-> "", keyUsed |-> TRUE, claims |-> NoClaims]
        ELSE [err |-> "", cause |-> "", keyUsed |-> TRUE, claims |-> c]

\* ValidateToken comparing the issuer only when the token carries one
VerifyAndCheck_PresentIssuerOnly(p, key, ticks, iss) ==
    LET parsed == JwtParse(p, key, ticks)
        c == p.claims
    IN  IF parsed.err # ""
        THEN [err |-> "failed to validate token", cause |-> parsed.err,
              keyUsed |-> parsed.keyUsed, claims |-> NoClaims]
        ELSE IF ~IsString(c.token_use) \/ c.token_use # "access"
        THEN [err |-> "invalid token use", cause |-> "", keyUsed |-> TRUE, claims |-> NoClaims]
        ELSE IF iss # "" /\ IsString(c.iss) /\ c.iss # iss
        THEN [err |-> "invalid issuer", cause |-> "", keyUsed |-> TRUE, claims |-> NoClaims]
        ELSE IF ~IsNumber(c.exp)
        THEN [err |-> "token missing exp claim", cause |-> "", keyUsed |-> TRUE, claims |-> NoClaims]
        ELSE IF Unix(ticks) > NumVal(c.exp)
        THEN [err |-> "token has expired", cause |-> "", keyUsed |-> TRUE, claims |-> NoClaims]
        ELSE [err |-> "", cause |-> "", keyUsed |-> TRUE, claims |-> c]

\* ValidateToken checking token_use before the signature is verified
VerifyAndCheck_UseFirst(p, key, ticks, iss) ==
    LET parsed == JwtParse(p, key, ticks)
        c == p.claims
    IN  IF ~IsString(c.token_use) \/ c.token_use # "access"
        THEN [err |-> "invalid token use", cause |-> "", keyUsed |-> FALSE, claims |-> NoClaims]
        ELSE IF parsed.err # ""
        THEN [err |-> "failed to validate token", cause |-> parsed.err,
              keyUsed |-> parsed.keyUsed, claims |-> NoClaims]
        ELSE IF iss # "" /\ (~IsString(c.iss) \/ c.iss # iss)
        THEN [err |-> "invalid issuer", cause |-> "", keyUsed |-> TRUE, claims |-> NoClaims]
        ELSE IF ~IsNumber(c.exp)
        THEN [err |-> "token missing exp claim", cause |-> "", keyUsed |-> TRUE, claims |-> NoClaims]
        ELSE IF Unix(ticks) > NumVal(c.exp)
        THEN [err |-> "token has expired", cause |-> "", keyUsed |-> TRUE, claims |-> NoClaims]
        ELSE [err |-> "", cause |-> "", keyUsed |-> TRUE, claims |-> c]

\* ValidateToken from the call of jwt.Parse to its return
VerifyAndCheck(p, key, ticks, iss) ==
    LET parsed == JwtParse(p, key, ticks)
        c == p.claims
    IN  IF parsed.err # ""
        THEN [err |-> "failed to validate token", cause |-> parsed.err,
              keyUsed |-> parsed.keyUsed, claims |-> NoClaims]
        ELSE IF ~IsString(c.token_use) \/ c.token_use # "access"
        THEN [err |-> "invalid token use", cause |-> "", keyUsed |-> TRUE, claims |-> NoClaims]
        ELSE IF iss # "" /\ (~IsString(c.iss) \/ c.iss # iss)
        THEN [err |-> "invalid issuer", cause |-> "", keyUsed |-> TRUE, claims |-> NoClaims]
        ELSE IF ~IsNumber(c.exp)
        THEN [err |-> "token missing exp claim", cause |-> "", keyUsed |-> TRUE, claims |-> NoClaims]
        ELSE IF Unix(ticks) > NumVal(c.exp)
        THEN [err |-> "token has expired", cause |-> "", keyUsed |-> TRUE, claims |-> NoClaims]
        ELSE [err |-> "", cause |-> "", keyUsed |-> TRUE, claims |-> c]

(***************************************************************************)
(* JWTValidator.fetchJWKS and the key selection of getPublicKey             *)
(***************************************************************************)
\* a fetch that decodes the body whatever the status code is
fetchJWKS_AnyStatus(r) ==
    IF ~r.transportOK THEN [err |-> "failed to fetch JWKS", decoded |-> FALSE, keys |-> <<>>]
    ELSE IF ~r.jsonOK THEN [err |-> "failed to decode JWKS", decoded |-> TRUE, keys |-> <<>>]
    ELSE [err |-> "", decoded |-> TRUE, keys |-> r.keys]

\* r is what http.Get returns: a transport error or the response with its
\* status code and body; decoded tells whether the body was handed to the
\* JSON decoder
fetchJWKS(r) ==
    IF ~r.transportOK THEN [err |-> "failed to fetch JWKS", decoded |-> FALSE, keys |-> <<>>]
    ELSE IF r.status # 200
    THEN [err |-> "failed to fetch JWKS: status", decoded |-> FALSE, keys |-> <<>>]
    ELSE IF ~r.jsonOK THEN [err |-> "failed to decode JWKS", decoded |-> TRUE, keys |-> <<>>]
    ELSE [err |-> "", decoded |-> TRUE, keys |-> r.keys]

\* the positions of the records whose kid equals kid
Matches(ks, kid) == {i \in 1..Len(ks) : ks[i].kid = kid}

Min(S) == CHOOSE i \in S : \A j \in S : i <= j

\* a loop over jwks.Keys that keeps the last record with the kid
FindKey_LastMatch(ks, kid) ==
    IF Matches(ks, kid) = {} THEN [found |-> FALSE, jwk |-> JWK("", <<>>, <<>>)]
    ELSE [found |-> TRUE,
          jwk |-> ks[CHOOSE i \in Matches(ks, kid) : \A j \in Matches(ks, kid) : j <= i]]

\* a loop over jwks.Keys that starts at the second record
FindKey_SkipFirst(ks, kid) ==
    IF Matches(ks, kid) \ {1} = {} THEN [found |-> FALSE, jwk |-> JWK("", <<>>, <<>>)]
    ELSE [found |-> TRUE, jwk |-> ks[Min(Matches(ks, kid) \ {1})]]

\* a key selection that falls back to the first record of the set
FindKey_Fallback(ks, kid) ==
    IF Matches(ks, kid) # {} THEN [found |-> TRUE, jwk |-> ks[Min(Matches(ks, kid))]]
    ELSE IF Len(ks) > 0 THEN [found |-> TRUE, jwk |-> ks[1]]
    ELSE [found |-> FALSE, jwk |-> JWK("", <<>>, <<>>)]

\* the loop over jwks.Keys: the first record with the kid, if there is one
FindKey(ks, kid) ==
    IF Matches(ks, kid) = {} THEN [found |-> FALSE, jwk |-> JWK("", <<>>, <<>>)]
    ELSE [found |-> TRUE, jwk |-> ks[Min(Matches(ks, kid))]]

(***************************************************************************)
(* Key records handed to jwkToRSAPublicKey on its own                        *)
(***************************************************************************)
\* byte strings of a length: a first byte, equal middle bytes, a last byte
ByteStrings(len) ==
    IF len = 0 THEN {<<>>}
    ELSE {[i \in 1..len |-> IF i = 1 THEN f ELSE IF i = len THEN l ELSE m] :
            f \in {0, 1, 127, 128, 255}, m \in {0, 255}, l \in {0, 1, 255}}

ExpByteStrings == UNION {ByteStrings(len) : len \in 0..MaxExpLen}

ModByteStrings == {<<>>, <<1>>, <<0, 2>>, <<255, 254, 253>>, <<1, 0, 0, 0, 251>>}

\* strings that are not unpadded base64url: a character outside the
\* alphabet, a lone character, padding
BadStrings == {<<"!">>, <<"A">>, <<"A", "Q", "=", "=">>}

ConvInputs ==
    {JWK("K1", n, e) :
        n \in {EncodeToString(b) : b \in ModByteStrings} \cup BadStrings,
        e \in {EncodeToString(b) : b \in ExpByteStrings} \cup BadStrings}

NoConv ==
    [state |-> "none", jwk |-> JWK("", <<>>, <<>>), err |-> "",
     key |-> [N |-> <<>>, E |-> <<>>]]

(***************************************************************************)
(* Several validators in one process                                         *)
(***************************************************************************)
Configs == {[JWKSURL |-> "U1", Issuer |-> ""], [JWKSURL |-> "U2", Issuer |-> "I1"]}

Regions == {"r1"}

UserPools == {"p1", "p2"}

\* fmt.Sprintf("https://cognito-idp.%s.amazonaws.com/%s", region, userPoolID)
CognitoIssuer(region, userPoolID) ==
    IF userPoolID = "p1" THEN "https://cognito-idp.r1.amazonaws.com/p1"
    ELSE "https://cognito-idp.r1.amazonaws.com/p2"

\* the same with /.well-known/jwks.json at its end
CognitoJWKSURL(region, userPoolID) ==
    IF userPoolID = "p1"
    THEN "https://cognito-idp.r1.amazonaws.com/p1/.well-known/jwks.json"
    ELSE "https://cognito-idp.r1.amazonaws.com/p2/.well-known/jwks.json"

\* tokens presented to the validators: a malformed one, and signed ones for
\* two kids and two issuers
InstTokens ==
    {<<"x">>,
     Tok("K1", "RS256", "M1", "access", "I1", "3", Absent, Absent, Absent),
     Tok("K2", "RS256", "M2", "access", CognitoIssuer("r1", "p1"), "3",
         Absent, Absent, Absent)}

\* what the key-set endpoints answer: both keys, or a failure
InstResponses ==
    { Response(200, TRUE, TRUE, <<JwkOf("K1", "M1"), JwkOf("K2", "M2")>>),
      Response(500, TRUE, TRUE, <<>>) }

NoOp == [op |-> "", v |-> 0, kid |-> Absent, lookup |-> "none", err |-> ""]

(***************************************************************************)
(* The user service: model.User, the in-memory user store and the requests  *)
(* in flight                                                                 *)
(***************************************************************************)
Emails == {"a@x.io", "b@x.io"}

\* request bodies of POST /users: not JSON, and JSON bodies whose fields are
\* missing, empty, not an address, or filled
UserBodies ==
    {[json |-> FALSE, email |-> Absent, firstName |-> Absent, lastName |-> Absent]}
        \cup {[json |-> TRUE, email |-> e, firstName |-> f, lastName |-> "l1"] :
                e \in Emails \cup {Absent, "", "nobody"}, f \in {"f1", "f2", ""}}

\* c.ShouldBindJSON into a struct with Email required,email and FirstName,
\* LastName required
BindUser(b) ==
    IF ~b.json THEN "invalid character"
    ELSE IF b.email = Absent \/ b.email = ""
    THEN "Field validation for 'Email' failed on the 'required' tag"
    ELSE IF b.email \notin Emails
    THEN "Field validation for 'Email' failed on the 'email' tag"
    ELSE IF b.firstName = Absent \/ b.firstName = ""
    THEN "Field validation for 'FirstName' failed on the 'required' tag"
    ELSE IF b.lastName = Absent \/ b.lastName = ""
    THEN "Field validation for 'LastName' failed on the 'required' tag"
    ELSE ""

NoUser ==
    [email |-> "", firstName |-> "", lastName |-> "", status |-> "", createdAt |-> 0,
     updatedAt |-> 0]

\* model.NewUser
NewUser(email, firstName, lastName, ticks) ==
    [email |-> email, firstName |-> firstName, lastName |-> lastName,
     status |-> "ACTIVE", createdAt |-> ticks, updatedAt |-> ticks]

NoUserRequest ==
    [email |-> "", firstName |-> "", lastName |-> "", user |-> NoUser, status |-> 0,
     error |-> ""]

(***************************************************************************)
(* The message service: model.Message, the in-memory MessageStore and the   *)
(* requests in flight                                                        *)
(***************************************************************************)
\* the values uuid.New().String() is drawn from
Ids == {"u1", "u2"}

Texts == {"a", "b"}

NoMessage == [id |-> "", text |-> "", ts |-> 0]

\* model.NewMessage
NewMessage(id, text, ticks) == [id |-> id, text |-> text, ts |-> ticks]

\* request bodies of POST /messages: not JSON, JSON without a text field,
\* JSON with an empty text, JSON with a text
Bodies ==
    {[json |-> FALSE, text |-> Absent], [json |-> TRUE, text |-> Absent],
     [json |-> TRUE, text |-> ""]}
        \cup {[json |-> TRUE, text |-> t] : t \in Texts}

\* c.ShouldBindJSON into a struct whose Text field is required
ShouldBindJSON(b) ==
    IF ~b.json THEN [err |-> "invalid character", text |-> ""]
    ELSE IF b.text = Absent \/ b.text = ""
    THEN [err |-> "Field validation for 'Text' failed on the 'required' tag", text |-> ""]
    ELSE [err |-> "", text |-> b.text]

\* sync.RWMutex: the goroutine holding the write lock (0 for none) and the
\* goroutines holding read locks
Unlocked == [writer |-> 0, readers |-> {}]

NoRequest ==
    [method |-> "", message |-> NoMessage, seen |-> {}, result |-> <<>>,
     status |-> 0, error |-> ""]

(***************************************************************************)
(* The validator, the clock and the requests in flight                       *)
(***************************************************************************)
NoKey == [N |-> <<>>, E |-> <<>>]

NoCtx ==
    [jwt_claims |-> NoClaims, access_token |-> <<>>, user_email |-> "",
     username |-> "", user_sub |-> ""]

\* the dynamic type of the value held under each context key
NoCtxTypes ==
    [jwt_claims |-> "", access_token |-> "", user_email |-> "",
     username |-> "", user_sub |-> ""]

\* what one request has done so far
NoCall ==
    [header |-> <<>>, token |-> <<>>, validateCalls |-> 0, kid |-> "",
     lookup |-> "none", priorOK |-> FALSE, priorFail |-> FALSE,
     priorGone |-> FALSE, fetches |-> 0, fetchStatus |-> 0,
     decoded |-> FALSE, fetchedOK |-> FALSE,
     fetched |-> <<>>, key |-> NoKey, resolved |-> FALSE, stored |-> FALSE,
     keyUsed |-> FALSE, now |-> 0, err |-> "", cause |-> "", claims |-> NoClaims,
     status |-> 0, body |-> "", aborted |-> FALSE, ctxKeys |-> {}, ctx |-> NoCtx,
     ctxTypes |-> NoCtxTypes, nextCalls |-> 0]

\* a lookup that never finds an entry
Cached_NeverHit(kid) == FALSE

Cached(kid) == \E e \in keys : e.kid = kid

CachedKey(kid) == (CHOOSE e \in keys : e.kid = kid).key

\* NewJWTValidator / NewCognitoJWTValidator: the configured issuer (empty
\* for none) and an empty cache.  okKids, failedKids and goneKids are history:
\* the kids that a validation succeeded for, that a validation failed for,
\* and the cached kids that a later key set no longer contained; the last
\* two are kept only when recording is set.
Start ==
    /\ issuer \in {"", "I1"}
    /\ keys = {}
    /\ clock = FirstTick
    /\ pc = [g \in Goroutines |-> "idle"]
    /\ call = [g \in Goroutines |-> NoCall]
    /\ crashed = FALSE
    /\ okKids = {}
    /\ failedKids = {}
    /\ goneKids = {}
    /\ messages = <<>>
    /\ mutex = Unlocked
    /\ mpc = [h \in Goroutines |-> "idle"]
    /\ mcall = [h \in Goroutines |-> NoRequest]
    /\ answered = {}
    /\ validators = <<>>
    /\ last = NoOp
    /\ users = {}
    /\ upc = [h \in Goroutines |-> "idle"]
    /\ ucall = [h \in Goroutines |-> NoUserRequest]

Init == Start /\ recording = FALSE /\ conv = NoConv

\* the same validator, with failedKids and goneKids recorded
InitHist == Start /\ recording = TRUE /\ conv = NoConv

\* gin's handler chain once the middleware has returned: the wrapped handler
\* runs unless the chain was aborted or ctx.Next() has run it already
Chain(c) ==
    IF ~c.aborted /\ c.nextCalls = 0 THEN [c EXCEPT !.nextCalls = 1] ELSE c

\* a rejection that answers 401 and forgets ctx.Abort()
Reject_NoAbort(c, msg) == Chain([c EXCEPT !.status = 401, !.body = msg])

\* ctx.JSON(401, {"error": msg}); ctx.Abort(); return
Reject(c, msg) == Chain([c EXCEPT !.status = 401, !.body = msg, !.aborted = TRUE])

\* a rejection that answers with the validator's error text
Unauthorized_LeakError(c, err, cause) ==
    Reject([c EXCEPT !.err = err, !.cause = cause], err)

\* the middleware after ValidateToken returned an error
Unauthorized(c, err, cause) ==
    Reject([c EXCEPT !.err = err, !.cause = cause], "Invalid or expired token")

\* a success path that sets user_email whether or not the claim is a string
Accept_AlwaysEmail(c, claims) ==
    Chain(
    [c EXCEPT !.claims = claims,
              !.ctx = [jwt_claims |-> claims, access_token |-> c.token,
                       user_email |-> claims.email,
                       username |-> IF IsString(claims.username) THEN claims.username ELSE "",
                       user_sub |-> IF IsString(claims.sub) THEN claims.sub ELSE ""],
              !.ctxTypes = [jwt_claims |-> "jwt.MapClaims", access_token |-> "string",
                            user_email |-> "string",
                            username |-> IF IsString(claims.username) THEN "string" ELSE "",
                            user_sub |-> IF IsString(claims.sub) THEN "string" ELSE ""],
              !.ctxKeys = {"jwt_claims", "access_token", "user_email"}
                  \cup (IF IsString(claims.username) THEN {"username"} ELSE {})
                  \cup (IF IsString(claims.sub) THEN {"user_sub"} ELSE {}),
              !.nextCalls = c.nextCalls + 1])

\* the middleware after ValidateToken returned claims: the context keys are
\* set and the next handler runs.  ctx.Set keeps the value with its dynamic
\* type: claims is a jwt.MapClaims, the others are strings.
Accept(c, claims) ==
    Chain(
    [c EXCEPT !.claims = claims,
              !.ctx = [jwt_claims |-> claims, access_token |-> c.token,
                       user_email |-> IF IsString(claims.email) THEN claims.email ELSE "",
                       username |-> IF IsString(claims.username) THEN claims.username ELSE "",
                       user_sub |-> IF IsString(claims.sub) THEN claims.sub ELSE ""],
              !.ctxTypes = [jwt_claims |-> "jwt.MapClaims", access_token |-> "string",
                            user_email |-> IF IsString(claims.email) THEN "string" ELSE "",
                            username |-> IF IsString(claims.username) THEN "string" ELSE "",
                            user_sub |-> IF IsString(claims.sub) THEN "string" ELSE ""],
              !.ctxKeys = {"jwt_claims", "access_token"}
                  \cup (IF IsString(claims.email) THEN {"user_email"} ELSE {})
                  \cup (IF IsString(claims.username) THEN {"username"} ELSE {})
                  \cup (IF IsString(claims.sub) THEN {"user_sub"} ELSE {}),
              !.nextCalls = c.nextCalls + 1])

\* ctx.Get(k) followed by the type assertion value.(T)
GetTyped(c, k, T, zero) ==
    IF k \notin c.ctxKeys THEN [val |-> zero, ok |-> FALSE]
    ELSE IF c.ctxTypes[k] # T THEN [val |-> zero, ok |-> FALSE]
    ELSE [val |-> c.ctx[k], ok |-> TRUE]

GetJWTClaimsFromContext(c) == GetTyped(c, "jwt_claims", "map[string]interface{}", NoClaims)

GetUserEmailFromContext(c) == GetTyped(c, "user_email", "string", "")

GetUserSubFromContext(c) == GetTyped(c, "user_sub", "string", "")

GetAccessTokenFromContext(c) == GetTyped(c, "access_token", "string", <<>>)

\* the rest of the request once the key is resolved: jwt.Parse, the policy
\* checks and the middleware's answer.  The two readings of the clock (inside
\* jwt.Parse and at the expiry check) fall in the same tick.
Finish(c, key, ticks, iss) ==
    LET p == ParseUnverified(c.token)
        r == VerifyAndCheck(p, key, ticks, iss)
        c1 == [c EXCEPT !.key = key, !.resolved = TRUE, !.keyUsed = r.keyUsed, !.now = ticks]
    IN  IF r.err # "" THEN Unauthorized(c1, r.err, r.cause) ELSE Accept(c1, r.claims)

\* history: the kids of the validations that succeeded and of those that
\* failed
Outcome(c) ==
    /\ okKids' = IF c.err = "" THEN okKids \cup {c.kid} ELSE okKids
    /\ failedKids' = IF recording /\ c.err # "" THEN failedKids \cup {c.kid} ELSE failedKids

\* a gate whose validator takes the kid of the header whatever its type is
Receive_AnyKid(g, h) ==
    /\ ~crashed
    /\ pc[g] = "idle"
    /\ LET c0 == [NoCall EXCEPT !.header = h]
           token == TrimPrefix(h, Bearer)
           c1 == [c0 EXCEPT !.token = token, !.validateCalls = 1]
           p == ParseUnverified(token)
       IN  IF h = <<>>
           THEN /\ call' = [call EXCEPT ![g] = Reject(c0, "Authorization header is required")]
                /\ pc' = [pc EXCEPT ![g] = "done"]
           ELSE IF ~HasPrefix(h, Bearer)
           THEN /\ call' = [call EXCEPT ![g] =
                                Reject(c0, "Authorization header must start with 'Bearer '")]
                /\ pc' = [pc EXCEPT ![g] = "done"]
           ELSE IF token = <<>>
           THEN /\ call' = [call EXCEPT ![g] = Reject(c0, "Token is required")]
                /\ pc' = [pc EXCEPT ![g] = "done"]
           ELSE IF ~p.ok
           THEN /\ call' = [call EXCEPT ![g] = Unauthorized(c1, "failed to parse token", "")]
                /\ pc' = [pc EXCEPT ![g] = "done"]
           ELSE /\ call' = [call EXCEPT ![g] =
                                [c1 EXCEPT !.kid = p.kid, !.priorOK = p.kid \in okKids,
                                           !.priorFail = p.kid \in failedKids,
                                           !.priorGone = p.kid \in goneKids]]
                /\ pc' = [pc EXCEPT ![g] = "lookup"]
    /\ UNCHANGED <<issuer, keys, clock, crashed, okKids, recording, failedKids, goneKids>>
    /\ UNCHANGED <<msgVars, conv, instVars, userVars>>

\* JWTAuthMiddleware up to the cache lookup of getPublicKey: the header
\* checks, the unverified parse and the kid extraction
Receive(g, h) ==
    /\ ~crashed
    /\ pc[g] = "idle"
    /\ LET c0 == [NoCall EXCEPT !.header = h]
           token == TrimPrefix(h, Bearer)
           c1 == [c0 EXCEPT !.token = token, !.validateCalls = 1]
           p == ParseUnverified(token)
       IN  IF h = <<>>
           THEN /\ call' = [call EXCEPT ![g] = Reject(c0, "Authorization header is required")]
                /\ pc' = [pc EXCEPT ![g] = "done"]
           ELSE IF ~HasPrefix(h, Bearer)
           THEN /\ call' = [call EXCEPT ![g] =
                                Reject(c0, "Authorization header must start with 'Bearer '")]
                /\ pc' = [pc EXCEPT ![g] = "done"]
           ELSE IF token = <<>>
           THEN /\ call' = [call EXCEPT ![g] = Reject(c0, "Token is required")]
                /\ pc' = [pc EXCEPT ![g] = "done"]
           ELSE IF ~p.ok
           THEN /\ call' = [call EXCEPT ![g] = Unauthorized(c1, "failed to parse token", "")]
                /\ pc' = [pc EXCEPT ![g] = "done"]
           ELSE IF ~IsString(p.kid)
           THEN /\ call' = [call EXCEPT ![g] = Unauthorized(c1, "token missing kid header", "")]
                /\ pc' = [pc EXCEPT ![g] = "done"]
           ELSE /\ call' = [call EXCEPT ![g] =
                                [c1 EXCEPT !.kid = p.kid, !.priorOK = p.kid \in okKids,
                                           !.priorFail = p.kid \in failedKids,
                                           !.priorGone = p.kid \in goneKids]]
                /\ pc' = [pc EXCEPT ![g] = "lookup"]
    /\ UNCHANGED <<issuer, keys, clock, crashed, okKids, recording, failedKids, goneKids>>
    /\ UNCHANGED <<msgVars, conv, instVars, userVars>>

\* a lookup that goes to the key-set endpoint again when the cached key does
\* not verify the token
Lookup_Refetch(g) ==
    /\ ~crashed
    /\ pc[g] = "lookup"
    /\ IF Cached(call[g].kid) /\ PubKey(call[g].token[3]) = CachedKey(call[g].kid)
       THEN LET c == Finish([call[g] EXCEPT !.lookup = "hit"],
                            CachedKey(call[g].kid), clock, issuer)
            IN  /\ call' = [call EXCEPT ![g] = c]
                /\ pc' = [pc EXCEPT ![g] = "done"]
                /\ Outcome(c)
       ELSE /\ call' = [call EXCEPT ![g].lookup = "miss"]
            /\ pc' = [pc EXCEPT ![g] = "fetch"]
            /\ UNCHANGED <<okKids, failedKids>>
    /\ UNCHANGED <<issuer, keys, clock, crashed, recording, goneKids>>
    /\ UNCHANGED <<msgVars, conv, instVars, userVars>>

\* getPublicKey: the read of v.keys[kid]; on a hit the request runs to its end
Lookup(g) ==
    /\ ~crashed
    /\ pc[g] = "lookup"
    /\ IF Cached(call[g].kid)
       THEN LET c == Finish([call[g] EXCEPT !.lookup = "hit"],
                            CachedKey(call[g].kid), clock, issuer)
            IN  /\ call' = [call EXCEPT ![g] = c]
                /\ pc' = [pc EXCEPT ![g] = "done"]
                /\ Outcome(c)
       ELSE /\ call' = [call EXCEPT ![g].lookup = "miss"]
            /\ pc' = [pc EXCEPT ![g] = "fetch"]
            /\ UNCHANGED <<okKids, failedKids>>
    /\ UNCHANGED <<issuer, keys, clock, crashed, recording, goneKids>>
    /\ UNCHANGED <<msgVars, conv, instVars, userVars>>

\* a getPublicKey that fetches again when the fetch failed
Fetch_Retry(g, r) ==
    /\ ~crashed
    /\ pc[g] = "fetch"
    /\ LET set == fetchJWKS(r)
           c == [call[g] EXCEPT !.fetches = @ + 1,
                                !.fetchStatus = IF r.transportOK THEN r.status ELSE 0,
                                !.decoded = set.decoded]
           c1 == [c EXCEPT !.fetchedOK = TRUE, !.fetched = set.keys]
           f == FindKey(set.keys, c.kid)
           k == jwkToRSAPublicKey(f.jwk)
       IN  IF set.err # ""
           THEN /\ call' = [call EXCEPT ![g] = c]
                /\ pc' = [pc EXCEPT ![g] = "fetch"]
           ELSE IF ~f.found
           THEN /\ call' = [call EXCEPT ![g] =
                                Unauthorized(c1, "failed to get public key", "key not found")]
                /\ pc' = [pc EXCEPT ![g] = "done"]
           ELSE IF k.err # ""
           THEN /\ call' = [call EXCEPT ![g] =
                                Unauthorized(c1, "failed to get public key", k.err)]
                /\ pc' = [pc EXCEPT ![g] = "done"]
           ELSE /\ call' = [call EXCEPT ![g] = [c1 EXCEPT !.key = k.key, !.resolved = TRUE]]
                /\ pc' = [pc EXCEPT ![g] = "store"]
    /\ failedKids' = IF recording /\ pc'[g] = "done"
                     THEN failedKids \cup {call[g].kid} ELSE failedKids
    /\ goneKids' = IF recording /\ fetchJWKS(r).err = ""
                   THEN goneKids \cup {e.kid : e \in {x \in keys : Matches(r.keys, x.kid) = {}}}
                   ELSE goneKids
    /\ UNCHANGED <<issuer, keys, clock, crashed, okKids, recording>>
    /\ UNCHANGED <<msgVars, conv, instVars, userVars>>

\* getPublicKey after a miss: fetchJWKS, answered by r, the search for the
\* kid and the conversion of the record found
Fetch(g, r) ==
    /\ ~crashed
    /\ pc[g] = "fetch"
    /\ LET set == fetchJWKS(r)
           c == [call[g] EXCEPT !.fetches = @ + 1,
                                !.fetchStatus = IF r.transportOK THEN r.status ELSE 0,
                                !.decoded = set.decoded]
           c1 == [c EXCEPT !.fetchedOK = TRUE, !.fetched = set.keys]
           f == FindKey(set.keys, c.kid)
           k == jwkToRSAPublicKey(f.jwk)
       IN  IF set.err # ""
           THEN /\ call' = [call EXCEPT ![g] =
                                Unauthorized(c, "failed to get public key", set.err)]
                /\ pc' = [pc EXCEPT ![g] = "done"]
           ELSE IF ~f.found
           THEN /\ call' = [call EXCEPT ![g] =
                                Unauthorized(c1, "failed to get public key", "key not found")]
                /\ pc' = [pc EXCEPT ![g] = "done"]
           ELSE IF k.err # ""
           THEN /\ call' = [call EXCEPT ![g] =
                                Unauthorized(c1, "failed to get public key", k.err)]
                /\ pc' = [pc EXCEPT ![g] = "done"]
           ELSE /\ call' = [call EXCEPT ![g] = [c1 EXCEPT !.key = k.key, !.resolved = TRUE]]
                /\ pc' = [pc EXCEPT ![g] = "store"]
    /\ failedKids' = IF recording /\ pc'[g] = "done"
                     THEN failedKids \cup {call[g].kid} ELSE failedKids
    /\ goneKids' = IF recording /\ fetchJWKS(r).err = ""
                   THEN goneKids \cup {e.kid : e \in {x \in keys : Matches(r.keys, x.kid) = {}}}
                   ELSE goneKids
    /\ UNCHANGED <<issuer, keys, clock, crashed, okKids, recording>>
    /\ UNCHANGED <<msgVars, conv, instVars, userVars>>

\* a store that replaces the whole map by the new entry
Store_Evicting(g) ==
    /\ ~crashed
    /\ pc[g] = "store"
    /\ keys' = {[kid |-> call[g].kid, key |-> call[g].key]}
    /\ LET c == Finish([call[g] EXCEPT !.stored = TRUE], call[g].key, clock, issuer)
       IN  /\ call' = [call EXCEPT ![g] = c]
           /\ Outcome(c)
    /\ pc' = [pc EXCEPT ![g] = "done"]
    /\ goneKids' = goneKids \ {call[g].kid}
    /\ UNCHANGED <<issuer, clock, crashed, recording>>
    /\ UNCHANGED <<msgVars, conv, instVars, userVars>>

\* getPublicKey: the write v.keys[kid] = publicKey, then the request runs to
\* its end
Store(g) ==
    /\ ~crashed
    /\ pc[g] = "store"
    /\ keys' = {e \in keys : e.kid # call[g].kid}
                   \cup {[kid |-> call[g].kid, key |-> call[g].key]}
    /\ LET c == Finish([call[g] EXCEPT !.stored = TRUE], call[g].key, clock, issuer)
       IN  /\ call' = [call EXCEPT ![g] = c]
           /\ Outcome(c)
    /\ pc' = [pc EXCEPT ![g] = "done"]
    /\ goneKids' = goneKids \ {call[g].kid}
    /\ UNCHANGED <<issuer, clock, crashed, recording>>
    /\ UNCHANGED <<msgVars, conv, instVars, userVars>>

\* the response is written and the goroutine serves the next request
Return(g) ==
    /\ ~crashed
    /\ pc[g] = "done"
    /\ pc' = [pc EXCEPT ![g] = "idle"]
    /\ call' = [call EXCEPT ![g] = NoCall]
    /\ UNCHANGED <<issuer, keys, clock, crashed, okKids, recording, failedKids, goneKids>>
    /\ UNCHANGED <<msgVars, conv, instVars, userVars>>

\* two goroutines are at unsynchronised accesses of v.keys, one of them the
\* write
MapRace ==
    \E g1, g2 \in Goroutines :
        g1 # g2 /\ pc[g1] = "store" /\ pc[g2] \in {"lookup", "store"}

\* the Go runtime detects the concurrent map access and ends the process;
\* when it does not, the racing accesses complete in either order
RaceFatal ==
    /\ ~crashed
    /\ MapRace
    /\ crashed' = TRUE
    /\ UNCHANGED <<issuer, keys, clock, pc, call, okKids, recording, failedKids, goneKids>>
    /\ UNCHANGED <<msgVars, conv, instVars, userVars>>

\* time passes
Tick ==
    /\ ~crashed
    /\ clock < MaxTick
    /\ clock' = clock + 1
    /\ UNCHANGED <<issuer, keys, pc, call, crashed, okKids, recording, failedKids, goneKids>>
    /\ UNCHANGED <<msgVars, conv, instVars, userVars>>

(***************************************************************************)
(* Server.createMessage, Server.getMessages, MessageStore.Add and GetAll    *)
(***************************************************************************)
\* what a message means to a client: its id and its text
Entry(m) == [id |-> m.id, text |-> m.text]

\* createMessage up to the call of Add: the body is bound, a message is
\* made of its text, a fresh id and the time
createMessage(h, b, id) ==
    /\ mpc[h] = "idle"
    /\ Len(messages) < MaxMessages
    /\ LET bound == ShouldBindJSON(b)
           c == [NoRequest EXCEPT !.method = "POST"]
       IN  IF bound.err # ""
           THEN /\ mcall' = [mcall EXCEPT ![h] = [c EXCEPT !.status = 400, !.error = bound.err]]
                /\ mpc' = [mpc EXCEPT ![h] = "done"]
           ELSE /\ mcall' = [mcall EXCEPT ![h] =
                                 [c EXCEPT !.message = NewMessage(id, bound.text, clock)]]
                /\ mpc' = [mpc EXCEPT ![h] = "add"]
    /\ UNCHANGED <<messages, mutex, answered>>
    /\ UNCHANGED <<issuer, keys, clock, pc, call, crashed, okKids, recording, failedKids,
                   goneKids, conv, instVars, userVars>>

\* Add: s.mutex.Lock()
Add_Lock(h) ==
    /\ mpc[h] = "add"
    /\ mutex = Unlocked
    /\ mutex' = [mutex EXCEPT !.writer = h]
    /\ mpc' = [mpc EXCEPT ![h] = "append"]
    /\ UNCHANGED <<messages, mcall, answered>>
    /\ UNCHANGED <<issuer, keys, clock, pc, call, crashed, okKids, recording, failedKids,
                   goneKids, conv, instVars, userVars>>

\* an Add that puts the message in front of the others
Add_Append_Prepend(h) ==
    /\ mpc[h] = "append"
    /\ mutex.writer = h
    /\ messages' = <<mcall[h].message>> \o messages
    /\ mutex' = [mutex EXCEPT !.writer = 0]
    /\ mcall' = [mcall EXCEPT ![h].status = 201]
    /\ answered' = answered \cup {Entry(mcall[h].message)}
    /\ mpc' = [mpc EXCEPT ![h] = "done"]
    /\ UNCHANGED <<issuer, keys, clock, pc, call, crashed, okKids, recording, failedKids,
                   goneKids, conv, instVars, userVars>>

\* an Add that overwrites the last message of the store
Add_Append_Overwrite(h) ==
    /\ mpc[h] = "append"
    /\ mutex.writer = h
    /\ messages' = IF messages = <<>> THEN <<mcall[h].message>>
                   ELSE [messages EXCEPT ![Len(messages)] = mcall[h].message]
    /\ mutex' = [mutex EXCEPT !.writer = 0]
    /\ mcall' = [mcall EXCEPT ![h].status = 201]
    /\ answered' = answered \cup {Entry(mcall[h].message)}
    /\ mpc' = [mpc EXCEPT ![h] = "done"]
    /\ UNCHANGED <<issuer, keys, clock, pc, call, crashed, okKids, recording, failedKids,
                   goneKids, conv, instVars, userVars>>

\* Add: the append and the deferred Unlock; Add returns nil and createMessage
\* answers 201 with the message
Add_Append(h) ==
    /\ mpc[h] = "append"
    /\ mutex.writer = h
    /\ messages' = Append(messages, mcall[h].message)
    /\ mutex' = [mutex EXCEPT !.writer = 0]
    /\ mcall' = [mcall EXCEPT ![h].status = 201]
    /\ answered' = answered \cup {Entry(mcall[h].message)}
    /\ mpc' = [mpc EXCEPT ![h] = "done"]
    /\ UNCHANGED <<issuer, keys, clock, pc, call, crashed, okKids, recording, failedKids,
                   goneKids, conv, instVars, userVars>>

\* getMessages up to the call of GetAll; seen holds the messages that 201
\* responses had handed out when the request came in
getMessages(h) ==
    /\ mpc[h] = "idle"
    /\ mcall' = [mcall EXCEPT ![h] = [NoRequest EXCEPT !.method = "GET", !.seen = answered]]
    /\ mpc' = [mpc EXCEPT ![h] = "getall"]
    /\ UNCHANGED <<messages, mutex, answered>>
    /\ UNCHANGED <<issuer, keys, clock, pc, call, crashed, okKids, recording, failedKids,
                   goneKids, conv, instVars, userVars>>

\* GetAll: s.mutex.RLock()
GetAll_RLock(h) ==
    /\ mpc[h] = "getall"
    /\ mutex.writer = 0
    /\ mutex' = [mutex EXCEPT !.readers = @ \cup {h}]
    /\ mpc' = [mpc EXCEPT ![h] = "copy"]
    /\ UNCHANGED <<messages, mcall, answered>>
    /\ UNCHANGED <<issuer, keys, clock, pc, call, crashed, okKids, recording, failedKids,
                   goneKids, conv, instVars, userVars>>

\* GetAll: the copy of s.messages and the deferred RUnlock; GetAll returns
\* the copy and getMessages answers 200 with it
GetAll_Copy(h) ==
    /\ mpc[h] = "copy"
    /\ h \in mutex.readers
    /\ mutex' = [mutex EXCEPT !.readers = @ \ {h}]
    /\ mcall' = [mcall EXCEPT ![h].result = messages, ![h].status = 200]
    /\ mpc' = [mpc EXCEPT ![h] = "done"]
    /\ UNCHANGED <<messages, answered>>
    /\ UNCHANGED <<issuer, keys, clock, pc, call, crashed, okKids, recording, failedKids,
                   goneKids, conv, instVars, userVars>>

\* the response is written and the goroutine serves the next request
Respond(h) ==
    /\ mpc[h] = "done"
    /\ mpc' = [mpc EXCEPT ![h] = "idle"]
    /\ mcall' = [mcall EXCEPT ![h] = NoRequest]
    /\ UNCHANGED <<messages, mutex, answered>>
    /\ UNCHANGED <<issuer, keys, clock, pc, call, crashed, okKids, recording, failedKids,
                   goneKids, conv, instVars, userVars>>

\* the message service, one goroutine per request
NextMsg ==
    \/ \E h \in Goroutines, b \in Bodies, id \in Ids : createMessage(h, b, id)
    \/ \E h \in Goroutines : Add_Lock(h)
    \/ \E h \in Goroutines : Add_Append(h)
    \/ \E h \in Goroutines : getMessages(h)
    \/ \E h \in Goroutines : GetAll_RLock(h)
    \/ \E h \in Goroutines : GetAll_Copy(h)
    \/ \E h \in Goroutines : Respond(h)

\* the message service has no token validator of its own
InitMsg == Init /\ issuer = ""

SpecMsg == InitMsg /\ [][NextMsg]_vars

(***************************************************************************)
(* jwkToRSAPublicKey applied to one key record                               *)
(***************************************************************************)
InitConv ==
    /\ Start
    /\ recording = FALSE
    /\ issuer = ""
    /\ conv \in {[NoConv EXCEPT !.state = "input", !.jwk = j] : j \in ConvInputs}

Convert ==
    /\ conv.state = "input"
    /\ LET k == jwkToRSAPublicKey(conv.jwk)
       IN  conv' = [conv EXCEPT !.state = "output", !.err = k.err, !.key = k.key]
    /\ UNCHANGED <<issuer, keys, clock, pc, call, crashed, okKids, recording, failedKids,
                   goneKids, msgVars, instVars, userVars>>

NextConv == Convert

SpecConv == InitConv /\ [][NextConv]_vars

(***************************************************************************)
(* NewJWTValidator, NewCognitoJWTValidator and ValidateToken on one of the  *)
(* validators built                                                          *)
(***************************************************************************)
\* a constructor that hands the map of the first validator to the new one
NewJWTValidator_SharedMap(config) ==
    /\ Len(validators) < MaxValidators
    /\ validators' = Append(validators,
                            [jwksURL |-> config.JWKSURL, issuer |-> config.Issuer,
                             keys |-> IF validators = <<>> THEN {}
                                      ELSE validators[1].keys])
    /\ last' = [NoOp EXCEPT !.op = "NewJWTValidator", !.v = Len(validators) + 1]
    /\ UNCHANGED <<issuer, keys, clock, pc, call, crashed, okKids, recording, failedKids,
                   goneKids, msgVars, conv, userVars>>

NewJWTValidator(config) ==
    /\ Len(validators) < MaxValidators
    /\ validators' = Append(validators,
                            [jwksURL |-> config.JWKSURL, issuer |-> config.Issuer,
                             keys |-> {}])
    /\ last' = [NoOp EXCEPT !.op = "NewJWTValidator", !.v = Len(validators) + 1]
    /\ UNCHANGED <<issuer, keys, clock, pc, call, crashed, okKids, recording, failedKids,
                   goneKids, msgVars, conv, userVars>>

NewCognitoJWTValidator(region, userPoolID) ==
    /\ Len(validators) < MaxValidators
    /\ validators' = Append(validators,
                            [jwksURL |-> CognitoJWKSURL(region, userPoolID),
                             issuer |-> CognitoIssuer(region, userPoolID),
                             keys |-> {}])
    /\ last' = [NoOp EXCEPT !.op = "NewCognitoJWTValidator", !.v = Len(validators) + 1]
    /\ UNCHANGED <<issuer, keys, clock, pc, call, crashed, okKids, recording, failedKids,
                   goneKids, msgVars, conv, userVars>>

\* a whole ValidateToken call on validator v with token t, the key-set
\* endpoint of v answering r when it is asked
ValidateToken(v, t, r) ==
    /\ v \in 1..Len(validators)
    /\ LET val == validators[v]
           p == ParseUnverified(t)
           hasKid == p.ok /\ IsString(p.kid)
           hit == hasKid /\ \E e \in val.keys : e.kid = p.kid
           set == fetchJWKS(r)
           f == FindKey(set.keys, p.kid)
           k == jwkToRSAPublicKey(f.jwk)
           resolved == hit \/ (hasKid /\ set.err = "" /\ f.found /\ k.err = "")
           key == IF hit THEN (CHOOSE e \in val.keys : e.kid = p.kid).key ELSE k.key
           res == VerifyAndCheck(p, key, clock, val.issuer)
       IN  /\ validators' =
                IF resolved /\ ~hit
                THEN [validators EXCEPT ![v].keys = @ \cup {[kid |-> p.kid, key |-> key]}]
                ELSE validators
           /\ last' = [op |-> "ValidateToken", v |-> v,
                       kid |-> IF hasKid THEN p.kid ELSE Absent,
                       lookup |-> IF ~hasKid THEN "none" ELSE IF hit THEN "hit" ELSE "miss",
                       err |-> IF ~p.ok THEN "failed to parse token"
                               ELSE IF ~hasKid THEN "token missing kid header"
                               ELSE IF ~resolved THEN "failed to get public key"
                               ELSE res.err]
    /\ UNCHANGED <<issuer, keys, clock, pc, call, crashed, okKids, recording, failedKids,
                   goneKids, msgVars, conv, userVars>>

NextInst ==
    \/ \E config \in Configs : NewJWTValidator(config)
    \/ \E region \in Regions, userPoolID \in UserPools :
            NewCognitoJWTValidator(region, userPoolID)
    \/ \E v \in 1..MaxValidators, t \in InstTokens, r \in InstResponses :
            ValidateToken(v, t, r)

InitInst == Init /\ issuer = ""

SpecInst == InitInst /\ [][NextInst]_vars

(***************************************************************************)
(* Server.createUser on the InMemoryUserStore                                *)
(***************************************************************************)
\* createUser up to the call of GetByEmail: the body is bound
createUser(h, b) ==
    /\ ~crashed
    /\ upc[h] = "idle"
    /\ IF BindUser(b) # ""
       THEN /\ ucall' = [ucall EXCEPT ![h] =
                             [NoUserRequest EXCEPT !.status = 400, !.error = BindUser(b)]]
            /\ upc' = [upc EXCEPT ![h] = "done"]
       ELSE /\ ucall' = [ucall EXCEPT ![h] =
                             [NoUserRequest EXCEPT !.email = b.email,
                                                   !.firstName = b.firstName,
                                                   !.lastName = b.lastName]]
            /\ upc' = [upc EXCEPT ![h] = "check"]
    /\ UNCHANGED <<users>>
    /\ UNCHANGED <<issuer, keys, clock, pc, call, crashed, okKids, recording, failedKids,
                   goneKids, msgVars, conv, instVars>>

\* GetByEmail: the read of s.users[email]; createUser answers 409 when there
\* is a user, and makes the new user when there is none
GetByEmail(h) ==
    /\ ~crashed
    /\ upc[h] = "check"
    /\ IF \E u \in users : u.email = ucall[h].email
       THEN /\ ucall' = [ucall EXCEPT ![h].status = 409, ![h].error = "User already exists"]
            /\ upc' = [upc EXCEPT ![h] = "done"]
       ELSE /\ ucall' = [ucall EXCEPT ![h].user =
                             NewUser(ucall[h].email, ucall[h].firstName,
                                     ucall[h].lastName, clock)]
            /\ upc' = [upc EXCEPT ![h] = "create"]
    /\ UNCHANGED <<users>>
    /\ UNCHANGED <<issuer, keys, clock, pc, call, crashed, okKids, recording, failedKids,
                   goneKids, msgVars, conv, instVars>>

\* Create: the write s.users[user.Email] = user; createUser answers 201
Create(h) ==
    /\ ~crashed
    /\ upc[h] = "create"
    /\ users' = {u \in users : u.email # ucall[h].user.email} \cup {ucall[h].user}
    /\ ucall' = [ucall EXCEPT ![h].status = 201]
    /\ upc' = [upc EXCEPT ![h] = "done"]
    /\ UNCHANGED <<issuer, keys, clock, pc, call, crashed, okKids, recording, failedKids,
                   goneKids, msgVars, conv, instVars>>

\* the response is written and the goroutine serves the next request
RespondUser(h) ==
    /\ ~crashed
    /\ upc[h] = "done"
    /\ upc' = [upc EXCEPT ![h] = "idle"]
    /\ ucall' = [ucall EXCEPT ![h] = NoUserRequest]
    /\ UNCHANGED <<users>>
    /\ UNCHANGED <<issuer, keys, clock, pc, call, crashed, okKids, recording, failedKids,
                   goneKids, msgVars, conv, instVars>>

\* two goroutines are at unsynchronised accesses of s.users, one of them the
\* write
UserMapRace ==
    \E h1, h2 \in Goroutines :
        h1 # h2 /\ upc[h1] = "create" /\ upc[h2] \in {"check", "create"}

\* the Go runtime detects the concurrent map access and ends the process
UserRaceFatal ==
    /\ ~crashed
    /\ UserMapRace
    /\ crashed' = TRUE
    /\ UNCHANGED <<issuer, keys, clock, pc, call, okKids, recording, failedKids,
                   goneKids, msgVars, conv, instVars, userVars>>

\* the user service, one goroutine per request
NextUser ==
    \/ \E h \in Goroutines, b \in UserBodies : createUser(h, b)
    \/ \E h \in Goroutines : GetByEmail(h)
    \/ \E h \in Goroutines : Create(h)
    \/ \E h \in Goroutines : RespondUser(h)
    \/ UserRaceFatal

InitUser == Init /\ issuer = ""

SpecUser == InitUser /\ [][NextUser]_vars

\* one request at a time
Next ==
    \/ \E h \in Headers : Receive(1, h)
    \/ Lookup(1)
    \/ \E r \in Responses : Fetch(1, r)
    \/ Store(1)
    \/ Return(1)
    \/ Tick

Spec == Init /\ [][Next]_vars

\* one request at a time, each step of the goroutine taken in the end.  The
\* return of http.Get is left without a fairness condition: the default
\* client has no timeout, so the call returns only when the provider answers
\* or the transport fails
SpecLive ==
    /\ Init
    /\ [][Next]_vars
    /\ WF_vars(Lookup(1))
    /\ WF_vars(Store(1))
    /\ WF_vars(Return(1))

\* one goroutine per request, on the same validator
NextConc ==
    \/ \E g \in Goroutines, h \in ConcHeaders : Receive(g, h)
    \/ \E g \in Goroutines : Lookup(g)
    \/ \E g \in Goroutines, r \in Responses : Fetch(g, r)
    \/ \E g \in Goroutines : Store(g)
    \/ \E g \in Goroutines : Return(g)
    \/ RaceFatal

SpecConc == Init /\ [][NextConc]_vars

\* one request at a time, with the history recorded
SpecHist == InitHist /\ [][Next]_vars

TypeOK ==
    /\ issuer \in {"", "I1"}
    /\ clock \in FirstTick..MaxTick
    /\ \A g \in Goroutines : pc[g] \in {"idle", "lookup", "fetch", "store", "done"}
    /\ crashed \in BOOLEAN
    /\ \A i \in 1..Len(messages) : messages[i].id \in Ids /\ messages[i].text \in Texts
    /\ mutex.writer \in {0} \cup Goroutines
    /\ mutex.readers \subseteq Goroutines
    /\ mutex.writer = 0 \/ mutex.readers = {}
    /\ \A h \in Goroutines :
        mpc[h] \in {"idle", "add", "append", "getall", "copy", "done"}

(***************************************************************************)
(* Properties                                                                *)
(***************************************************************************)
\* the request of goroutine g has been answered
Done(g) == pc[g] = "done"

\* the request of goroutine g reached ValidateToken with a token that parses
Parsed(g) == call[g].validateCalls = 1 /\ Len(call[g].token) = 9

TokKid(g) == call[g].token[1]

TokAlg(g) == call[g].token[2]

TokSig(g) == call[g].token[3]

TokUse(g) == call[g].token[4]

TokIss(g) == call[g].token[5]

TokExp(g) == call[g].token[6]

Rejected(g) ==
    /\ call[g].err # ""
    /\ call[g].status = 401
    /\ call[g].nextCalls = 0

Accepted(g) ==
    /\ call[g].err = ""
    /\ call[g].nextCalls = 1

\* the token of g carries a signature by the key pair whose public key was
\* resolved for it, under an RSA method
SignedByResolvedKey(g) ==
    /\ Parsed(g)
    /\ call[g].resolved
    /\ TokAlg(g) \in {"RS256", "RS384", "RS512"}
    /\ PubKey(TokSig(g)) = call[g].key

IssuerFits(g) == issuer = "" \/ TokIss(g) = issuer

\* the token's exp is a number of seconds after the time of the validation
Unexpired(g) ==
    /\ TokExp(g) \in {"0", "1", "2", "3", "4", "5"}
    /\ call[g].now < NumVal(TokExp(g)) * TicksPerSec

\* C1: a request whose token names a kid for which an earlier validation on
\* this validator succeeded performs no key-set fetch, whatever its outcome
C1_CacheHitAvoidsFetch ==
    \A g \in Goroutines : call[g].priorOK => call[g].fetches = 0

\* a later request for an already validated kid was answered, and rejected
C1_Witness ==
    \E g \in Goroutines :
        Done(g) /\ call[g].priorOK /\ call[g].lookup = "hit" /\ Rejected(g)

\* C2: when the kid is not cached and the fetched key set has no record with
\* that kid, the token is rejected, no key is resolved or used for it and
\* nothing is stored, even when the key set is not empty
C2_UnknownKidRejected ==
    \A g \in Goroutines :
        (call[g].fetchedOK /\ Matches(call[g].fetched, call[g].kid) = {})
            => /\ Done(g)
               /\ Rejected(g)
               /\ call[g].err = "failed to get public key"
               /\ ~call[g].resolved
               /\ ~call[g].keyUsed
               /\ ~call[g].stored
               /\ ~Cached(call[g].kid)

\* a miss answered by a non-empty key set without the kid
C2_Witness ==
    \E g \in Goroutines :
        /\ Done(g)
        /\ call[g].fetchedOK
        /\ Len(call[g].fetched) > 0
        /\ Matches(call[g].fetched, call[g].kid) = {}
        /\ call[g].cause = "key not found"

\* C3: a token that declares a method outside the RSA family is rejected and
\* no key is handed to signature verification for it
C3_AlgorithmRestricted ==
    \A g \in Goroutines :
        (Done(g) /\ Parsed(g) /\ TokAlg(g) \notin {"RS256", "RS384", "RS512"})
            => Rejected(g) /\ ~call[g].keyUsed

\* an HMAC token signed with the key pair of its resolved key was rejected
C3_Witness ==
    \E g \in Goroutines :
        /\ Done(g)
        /\ Parsed(g)
        /\ TokAlg(g) = "HS256"
        /\ call[g].resolved
        /\ PubKey(TokSig(g)) = call[g].key
        /\ call[g].cause = "unexpected signing method"

\* C4: a correctly signed token that passes the token_use and issuer checks
\* is rejected when exp equals the current time in seconds and accepted when
\* exp is one second later
C4_ExpiryBoundary ==
    \A g \in Goroutines :
        (/\ Done(g)
         /\ SignedByResolvedKey(g)
         /\ TokUse(g) = "access"
         /\ IssuerFits(g)
         /\ TokExp(g) \in {"0", "1", "2", "3", "4", "5"})
            => /\ NumVal(TokExp(g)) = Unix(call[g].now) => Rejected(g)
               /\ NumVal(TokExp(g)) = Unix(call[g].now) + 1 => Accepted(g)

\* a token with exp equal to the current second was rejected as expired
C4_Witness ==
    \E g \in Goroutines :
        /\ Done(g)
        /\ SignedByResolvedKey(g)
        /\ TokUse(g) = "access"
        /\ IssuerFits(g)
        /\ TokExp(g) \in {"1", "2", "3"}
        /\ NumVal(TokExp(g)) = Unix(call[g].now)
        /\ Rejected(g)

\* C5: a token whose token_use is absent, not a string or a string other
\* than "access" is rejected
C5_TokenUsePolicy ==
    \A g \in Goroutines :
        (Done(g) /\ Parsed(g) /\ TokUse(g) # "access") => Rejected(g)

\* a token with token_use "id" and valid signature, issuer and expiry was
\* rejected
C5_Witness ==
    \E g \in Goroutines :
        /\ Done(g)
        /\ SignedByResolvedKey(g)
        /\ TokUse(g) = "id"
        /\ TokIss(g) = issuer
        /\ Unexpired(g)
        /\ call[g].err = "invalid token use"

\* C6: a validator without an issuer accepts a correctly signed, unexpired
\* access token whatever its iss claim is
C6_IssuerOptOut ==
    \A g \in Goroutines :
        (/\ issuer = ""
         /\ Done(g)
         /\ SignedByResolvedKey(g)
         /\ TokUse(g) = "access"
         /\ Unexpired(g))
            => Accepted(g)

\* a validator without an issuer accepted a token without a usable iss
C6_Witness ==
    \E g \in Goroutines :
        /\ issuer = ""
        /\ Done(g)
        /\ Parsed(g)
        /\ TokIss(g) \in {Absent, WrongType}
        /\ Accepted(g)

\* C7: a validator with an issuer rejects every token whose iss is absent,
\* not a string or another string
C7_IssuerMatch ==
    \A g \in Goroutines :
        (issuer # "" /\ Done(g) /\ Parsed(g) /\ TokIss(g) # issuer) => Rejected(g)

\* a token with valid signature, token_use and expiry and no iss claim was
\* rejected for its issuer
C7_Witness ==
    \E g \in Goroutines :
        /\ issuer # ""
        /\ Done(g)
        /\ SignedByResolvedKey(g)
        /\ TokUse(g) = "access"
        /\ TokIss(g) = Absent
        /\ Unexpired(g)
        /\ call[g].err = "invalid issuer"

\* C8: no two goroutines are ever at accesses of the key cache of which one
\* is a write
C8_NoCacheRace == ~MapRace

\* C9: the next handler runs only after ValidateToken accepted the token
\* taken from the request; every other request is aborted and answered 401
\* with no context key set
C9_GateSoundness ==
    \A g \in Goroutines :
        /\ call[g].nextCalls > 0
            => /\ call[g].validateCalls = 1
               /\ call[g].err = ""
               /\ call[g].keyUsed
               /\ Len(call[g].header) > 7
               /\ call[g].token = SubSeq(call[g].header, 8, Len(call[g].header))
        /\ (Done(g) /\ call[g].err # "")
            => call[g].nextCalls = 0
        /\ (Done(g) /\ call[g].nextCalls = 0)
            => /\ call[g].aborted
               /\ call[g].status = 401
               /\ call[g].ctxKeys = {}

\* a request was rejected by the validator and aborted
C9_Witness ==
    \E g \in Goroutines :
        /\ Done(g)
        /\ call[g].validateCalls = 1
        /\ call[g].err # ""
        /\ call[g].aborted
        /\ call[g].status = 401

\* the header begins with the seven characters "Bearer "
BearerScheme(h) ==
    /\ Len(h) >= 7
    /\ h[1] = "B" /\ h[2] = "e" /\ h[3] = "a" /\ h[4] = "r"
    /\ h[5] = "e" /\ h[6] = "r" /\ h[7] = " "

HeaderReject(g, msg) ==
    /\ call[g].status = 401
    /\ call[g].body = msg
    /\ call[g].validateCalls = 0
    /\ call[g].nextCalls = 0

\* C10: a missing or empty header, a header without the prefix "Bearer " and
\* a header with nothing after the prefix are answered 401 with their own
\* messages, without a call of ValidateToken or of the wrapped handler
C10_HeaderRejection ==
    \A g \in Goroutines :
        Done(g) =>
            /\ call[g].header = <<>>
                => HeaderReject(g, "Authorization header is required")
            /\ (call[g].header # <<>> /\ ~BearerScheme(call[g].header))
                => HeaderReject(g, "Authorization header must start with 'Bearer '")
            /\ (BearerScheme(call[g].header) /\ Len(call[g].header) = 7)
                => HeaderReject(g, "Token is required")

\* a header with the scheme in lower case was rejected for its prefix
C10_Witness ==
    \E g \in Goroutines :
        /\ Done(g)
        /\ Len(call[g].header) > 7
        /\ call[g].header[1] = "b"
        /\ call[g].body = "Authorization header must start with 'Bearer '"

\* the text of an error of ValidateToken
ErrorTexts ==
    {"failed to parse token", "token missing kid header", "failed to get public key",
     "failed to validate token", "invalid token use", "invalid issuer",
     "token missing exp claim", "token has expired"}

\* C11: every request whose token fails ValidateToken gets the same answer,
\* 401 with "Invalid or expired token", whatever the reason of the failure;
\* the answer carries no text of the validator's error
C11_OpaqueFailure ==
    \A g \in Goroutines :
        (Done(g) /\ call[g].validateCalls = 1 /\ call[g].err # "")
            => /\ call[g].err \in ErrorTexts
               /\ call[g].status = 401
               /\ call[g].body = "Invalid or expired token"
               /\ call[g].body # call[g].err
               /\ call[g].body # call[g].cause

\* a token rejected as expired got the generic answer
C11_Witness ==
    \E g \in Goroutines :
        /\ Done(g)
        /\ call[g].validateCalls = 1
        /\ call[g].cause = "token is expired"
        /\ call[g].body = "Invalid or expired token"

\* the payload of the token of g
Payload(g) ==
    [token_use |-> call[g].token[4], iss |-> call[g].token[5], exp |-> call[g].token[6],
     email |-> call[g].token[7], username |-> call[g].token[8], sub |-> call[g].token[9]]

\* context key k is set, to v, exactly when the claim v is a string
SetIffString(g, k, v) ==
    IF v \notin {Absent, WrongType}
    THEN k \in call[g].ctxKeys /\ call[g].ctx[k] = v
    ELSE k \notin call[g].ctxKeys

\* C12: when ValidateToken accepts, jwt_claims holds the returned claims,
\* access_token the token taken from the header, user_email, username and
\* user_sub are set exactly for the identity claims that are strings, and
\* the next handler runs once
C12_SuccessPath ==
    \A g \in Goroutines :
        (Done(g) /\ call[g].validateCalls = 1 /\ call[g].err = "")
            => /\ call[g].claims = Payload(g)
               /\ {"jwt_claims", "access_token"} \subseteq call[g].ctxKeys
               /\ call[g].ctx.jwt_claims = call[g].claims
               /\ call[g].ctx.access_token = SubSeq(call[g].header, 8, Len(call[g].header))
               /\ SetIffString(g, "user_email", call[g].token[7])
               /\ SetIffString(g, "username", call[g].token[8])
               /\ SetIffString(g, "user_sub", call[g].token[9])
               /\ call[g].nextCalls = 1
               /\ ~call[g].aborted

\* an accepted token with a string sub, an email of another type and no
\* username
C12_Witness ==
    \E g \in Goroutines :
        /\ Done(g)
        /\ Accepted(g)
        /\ call[g].token[7] = WrongType
        /\ call[g].token[8] = Absent
        /\ call[g].token[9] = "u"
        /\ call[g].ctxKeys = {"jwt_claims", "access_token", "user_sub"}

\* C13: in the handler behind an accepted request the four getters return
\* the verified claims, the presented token and the email and sub claims
\* that are strings, each with true
C13_ClaimsReadable ==
    \A g \in Goroutines :
        (Done(g) /\ call[g].nextCalls = 1)
            => /\ GetJWTClaimsFromContext(call[g]) = [val |-> Payload(g), ok |-> TRUE]
               /\ GetAccessTokenFromContext(call[g]) = [val |-> call[g].token, ok |-> TRUE]
               /\ call[g].token[7] \notin {Absent, WrongType}
                    => GetUserEmailFromContext(call[g]) = [val |-> call[g].token[7], ok |-> TRUE]
               /\ call[g].token[9] \notin {Absent, WrongType}
                    => GetUserSubFromContext(call[g]) = [val |-> call[g].token[9], ok |-> TRUE]

Resolvable(g) ==
    /\ call[g].fetchedOK
    /\ \E i \in 1..Len(call[g].fetched) :
        /\ call[g].fetched[i].kid = call[g].kid
        /\ \A j \in 1..(i - 1) : call[g].fetched[j].kid # call[g].kid
        /\ jwkToRSAPublicKey(call[g].fetched[i]).err = ""

\* C15: failed validations leave nothing behind that makes a later one fail:
\* a miss always goes to the key-set endpoint, a reachable key set that holds
\* the kid always resolves it, a token that is valid under the resolved key
\* is accepted, and every failure returns control with a 401
C15_NoStickyFailure ==
    \A g \in Goroutines :
        /\ (pc[g] \in {"store", "done"} /\ call[g].lookup = "miss")
            => call[g].fetches = 1
        /\ Resolvable(g) => call[g].resolved
        /\ (/\ Done(g)
            /\ SignedByResolvedKey(g)
            /\ TokUse(g) = "access"
            /\ IssuerFits(g)
            /\ Unexpired(g))
            => Accepted(g)
        /\ (Done(g) /\ call[g].err # "")
            => call[g].status = 401 /\ ~crashed

\* a token was accepted, its key fetched, after validations for the same kid
\* had failed and none had succeeded
C15_Witness ==
    \E g \in Goroutines :
        /\ Done(g)
        /\ call[g].priorFail
        /\ ~call[g].priorOK
        /\ call[g].lookup = "miss"
        /\ Accepted(g)

\* the errors of the claim policy checks, made by ValidateToken itself or by
\* the claims validation of jwt.Parse
PolicyFailure(g) ==
    \/ call[g].err \in {"invalid token use", "invalid issuer",
                        "token missing exp claim", "token has expired"}
    \/ /\ call[g].err = "failed to validate token"
       /\ call[g].cause \in {"token is expired", "invalid type for claim"}

\* C17: the stages run in the order parse and kid extraction, key
\* resolution, algorithm check and signature verification, claim policy, and
\* a validation stops at the first stage that fails: a parse or kid failure
\* comes before any lookup or fetch, a resolution failure before any use of a
\* key, a key is used only after it was resolved and the algorithm passed,
\* and a policy failure is reported only for a token whose signature
\* verified
C17_PipelineOrder ==
    \A g \in Goroutines :
        /\ call[g].lookup # "none" => call[g].validateCalls = 1 /\ IsString(call[g].kid)
        /\ call[g].fetches > 0 => call[g].lookup = "miss"
        /\ call[g].keyUsed => call[g].resolved /\ TokAlg(g) \in RSAMethods
        /\ Done(g) /\ call[g].err \in {"failed to parse token", "token missing kid header"}
            => /\ call[g].lookup = "none"
               /\ call[g].fetches = 0
               /\ ~call[g].resolved
               /\ ~call[g].keyUsed
        /\ Done(g) /\ call[g].err = "failed to get public key"
            => /\ call[g].lookup = "miss"
               /\ ~call[g].resolved
               /\ ~call[g].stored
               /\ ~call[g].keyUsed
        /\ Done(g) /\ call[g].err = "failed to validate token"
                   /\ call[g].cause = "unexpected signing method"
            => call[g].resolved /\ ~call[g].keyUsed
        /\ Done(g) /\ PolicyFailure(g)
            => call[g].keyUsed /\ SignedByResolvedKey(g)
        /\ Done(g) /\ call[g].err = "invalid issuer" => TokUse(g) = "access"
        /\ Done(g) /\ call[g].err \in {"token missing exp claim", "token has expired"}
            => TokUse(g) = "access" /\ IssuerFits(g)

\* a token with a verified signature was rejected for its token_use
C17_Witness ==
    \E g \in Goroutines :
        /\ Done(g)
        /\ call[g].err = "invalid token use"
        /\ SignedByResolvedKey(g)
        /\ call[g].keyUsed

\* a validation served from the cache makes no fetch, and accepts the token
\* when it is signed by the cached key and valid otherwise
HitServedFromCache(g) ==
    (Done(g) /\ call[g].lookup = "hit")
        => /\ call[g].fetches = 0
           /\ call[g].key = CachedKey(call[g].kid)
           /\ (/\ SignedByResolvedKey(g)
               /\ TokUse(g) = "access"
               /\ IssuerFits(g)
               /\ Unexpired(g))
               => Accepted(g)

\* C18: a kid that is in the cache is in the cache in every later state, and
\* a token signed with a cached key and valid otherwise is accepted without
\* a fetch, also after a key set without that kid was fetched
C18_NoEviction ==
    /\ [](\A g \in Goroutines : HitServedFromCache(g))
    /\ [][\A k \in KidValues : Cached(k) => Cached(k)']_vars

\* a token was accepted from the cache after the provider had published a
\* key set without its kid
C18_Witness ==
    \E g \in Goroutines :
        /\ Done(g)
        /\ call[g].priorGone
        /\ call[g].lookup = "hit"
        /\ call[g].fetches = 0
        /\ Accepted(g)

\* both goroutines missed the cache for the same kid, fetched and converted
RacingMisses(g1, g2) ==
    /\ g1 # g2
    /\ call[g1].lookup = "miss" /\ call[g2].lookup = "miss"
    /\ call[g1].kid = call[g2].kid
    /\ pc[g1] \in {"store", "done"} /\ pc[g2] \in {"store", "done"}
    /\ call[g1].resolved /\ call[g2].resolved

\* what the cache holds and what the callers used once both stores are done
LastStoreWins(g1, g2) ==
    (call[g1].stored /\ call[g2].stored)
        => /\ Cardinality({e \in keys : e.kid = call[g1].kid}) = 1
           /\ \E g \in {g1, g2} : [kid |-> call[g].kid, key |-> call[g].key] \in keys
           /\ FindKey(call[g1].fetched, call[g1].kid) = FindKey(call[g2].fetched, call[g2].kid)
               => call[g1].key = call[g2].key

\* C19: two calls that both miss the cache for one kid both run to their
\* end: the process survives every interleaving of their stores, the cache
\* ends with one entry for the kid, written by one of them, and equal
\* records give equal keys
C19_RacingMisses ==
    \A g1, g2 \in Goroutines :
        RacingMisses(g1, g2) => ~crashed /\ LastStoreWins(g1, g2)

\* the request of goroutine h was a GET /messages and has been answered
GotMessages(h) == mpc[h] = "done" /\ mcall[h].method = "GET"

\* the list holds a message with the id and the text of m
Holds(list, m) == \E i \in 1..Len(list) : Entry(list[i]) = m

\* C16: a message that a 201 response handed out is in the response of
\* every GET /messages that comes in afterwards, with its id and its text;
\* the store keeps it, and an Add changes no message stored before
C16_Retrievable ==
    /\ [](\A h \in Goroutines :
            GotMessages(h)
                => /\ mcall[h].status = 200
                   /\ \A m \in mcall[h].seen : Holds(mcall[h].result, m))
    /\ [](\A m \in answered : Holds(messages, m))
    /\ [][/\ Len(messages) <= Len(messages')
          /\ \A i \in 1..Len(messages) : messages'[i] = messages[i]]_vars

\* a GET /messages returned a message created before it came in, together
\* with another message
C16_Witness ==
    \E h \in Goroutines :
        /\ GotMessages(h)
        /\ mcall[h].status = 200
        /\ mcall[h].seen # {}
        /\ Len(mcall[h].result) >= 2
        /\ \E i, j \in 1..Len(mcall[h].result) :
            i < j /\ Entry(mcall[h].result[i]) \in mcall[h].seen

\* the bytes that jwkToRSAPublicKey decodes from field e, read as an
\* unsigned big-endian integer
DecodedExponent == SetBytes(DecodeString(conv.jwk.e).bytes)

\* the integer is below 2^63, the bound of the int field rsa.PublicKey.E
FitsInt(b) == Len(b) < 8 \/ (Len(b) = 8 /\ b[1] < 128)

\* C20: for a record whose fields decode, jwkToRSAPublicKey returns an error
\* when the exponent does not fit the exponent field of the key, and a key
\* whose exponent is the decoded integer when it fits
C20_ExponentWidth ==
    (/\ conv.state = "output"
     /\ DecodeString(conv.jwk.n).ok
     /\ DecodeString(conv.jwk.e).ok)
        => IF FitsInt(DecodedExponent)
           THEN conv.err = "" /\ conv.key.E = DecodedExponent
           ELSE conv.err # ""

\* C21: a validation makes at most one key-set fetch, exactly one when the
\* kid of its token missed the cache and none otherwise, whatever the fetch,
\* the search for the kid or the signature check gave; a request calls
\* ValidateToken at most once
C21_NoRetries ==
    \A g \in Goroutines :
        /\ call[g].validateCalls <= 1
        /\ call[g].fetches <= 1
        /\ call[g].fetches = 1 => call[g].validateCalls = 1 /\ call[g].lookup = "miss"
        /\ (pc[g] \in {"store", "done"} /\ call[g].lookup = "miss") => call[g].fetches = 1
        /\ call[g].lookup \in {"none", "hit"} => call[g].fetches = 0

\* a validation ended in a failure after its one fetch
C21_Witness ==
    \E g \in Goroutines :
        /\ Done(g)
        /\ call[g].lookup = "miss"
        /\ call[g].fetches = 1
        /\ call[g].err = "failed to get public key"
        /\ call[g].validateCalls = 1

\* C22: a validation that has started its key-set fetch returns in the end,
\* also when the provider never answers
C22_BoundedFetch == \A g \in Goroutines : (pc[g] = "fetch") ~> (pc[g] = "done")

\* the string is unpadded base64url: characters of the alphabet only, and
\* not a length that leaves a lone character
ValidBase64URL(str) ==
    /\ \A i \in 1..Len(str) : \E k \in 1..64 : Alphabet[k] = str[i]
    /\ Len(str) % 4 # 1

\* the validation of g ended with the given conversion error, without a key
\* and without a cache entry for its kid
ConversionFailed(g, cause) ==
    /\ Done(g)
    /\ call[g].err = "failed to get public key"
    /\ call[g].cause = cause
    /\ call[g].key = NoKey
    /\ ~call[g].resolved
    /\ ~call[g].stored
    /\ ~call[g].keyUsed
    /\ ~Cached(call[g].kid)

CachedIn(w, kid) == \E e \in validators[w].keys : e.kid = kid

\* C24: a validator starts with an empty cache of its own; a ValidateToken
\* call on one validator changes at most the cache of that validator, finds
\* a kid there exactly when that validator holds it, whatever the other
\* validators hold, and the jwksURL and issuer of every validator stay as
\* they were built
C24_PerInstanceCache ==
    [][/\ Len(validators) <= Len(validators')
       /\ \A w \in 1..Len(validators) :
            /\ validators'[w].jwksURL = validators[w].jwksURL
            /\ validators'[w].issuer = validators[w].issuer
            /\ (last'.op # "ValidateToken" \/ last'.v # w)
                => validators'[w] = validators[w]
       /\ \A w \in (Len(validators) + 1)..Len(validators') : validators'[w].keys = {}
       /\ (last'.op = "ValidateToken" /\ last'.lookup # "none")
            => (last'.lookup = "hit" <=> CachedIn(last'.v, last'.kid))]_vars

\* a call on the second validator missed a kid that the first validator
\* holds, and the second validator's cache is still empty
C24_Witness ==
    /\ Len(validators) = 2
    /\ last.op = "ValidateToken"
    /\ last.v = 2
    /\ last.lookup = "miss"
    /\ CachedIn(1, last.kid)
    /\ validators[2].keys = {}

\* C25: the record made of the unpadded base64url encodings of a modulus
\* byte string and of an exponent byte string whose integer fits the
\* exponent field converts, without an error, into the key whose modulus and
\* exponent are the unsigned big-endian integers of the two byte strings,
\* and a second conversion of the record gives an equal key
C25_RoundTrip ==
    \A nb \in ModByteStrings, eb \in ExpByteStrings :
        (/\ conv.state = "output"
         /\ conv.jwk.n = EncodeToString(nb)
         /\ conv.jwk.e = EncodeToString(eb)
         /\ FitsInt(SetBytes(eb)))
            => /\ conv.err = ""
               /\ conv.key.N = SetBytes(nb)
               /\ conv.key.E = SetBytes(eb)
               /\ jwkToRSAPublicKey(conv.jwk).key = conv.key

\* a modulus with a leading zero byte and an exponent of seven bytes went
\* through the conversion
C25_Witness ==
    /\ conv.state = "output"
    /\ conv.err = ""
    /\ conv.jwk.n = EncodeToString(<<0, 2>>)
    /\ conv.key.N = <<2>>
    /\ Len(conv.key.E) = 7
    /\ conv.key.E[1] = 255

\* the entry is the conversion of the first record with its kid in the key
\* set that the call of g fetched with status 200
FromFetchOf(e, g) ==
    /\ call[g].fetches = 1
    /\ call[g].fetchStatus = 200
    /\ call[g].fetchedOK
    /\ call[g].kid = e.kid
    /\ \E i \in 1..Len(call[g].fetched) :
        /\ call[g].fetched[i].kid = e.kid
        /\ \A j \in 1..(i - 1) : call[g].fetched[j].kid # e.kid
        /\ jwkToRSAPublicKey(call[g].fetched[i]).err = ""
        /\ jwkToRSAPublicKey(call[g].fetched[i]).key = e.key

\* C26: the cache starts empty and every entry that enters it is the
\* conversion of the first record with its kid in a key set fetched with
\* status 200 by the call that stores it; the entry is in the cache when
\* that call ends, also when the call rejects its token
C26_CacheProvenance ==
    /\ [][\A e \in keys' \ keys :
            \E g \in Goroutines : pc[g] = "store" /\ FromFetchOf(e, g)]_vars
    /\ [](\A g \in Goroutines :
            (Done(g) /\ call[g].stored)
                => [kid |-> call[g].kid, key |-> call[g].key] \in keys)
    /\ [](\A e \in keys : \E r \in Responses :
            /\ fetchJWKS(r).err = ""
            /\ \E i \in 1..Len(r.keys) :
                /\ r.keys[i].kid = e.kid
                /\ \A j \in 1..(i - 1) : r.keys[j].kid # e.kid
                /\ jwkToRSAPublicKey(r.keys[i]).key = e.key)

\* a key was cached from a key set that names its kid twice, by a call that
\* then rejected its token
C26_Witness ==
    \E g \in Goroutines :
        /\ Done(g)
        /\ call[g].stored
        /\ call[g].err = "failed to validate token"
        /\ Cardinality({i \in 1..Len(call[g].fetched) :
                            call[g].fetched[i].kid = call[g].kid}) = 2
        /\ [kid |-> call[g].kid, key |-> call[g].key] \in keys

\* C27: an entry of the cache is never replaced, a validation whose kid is
\* cached makes no fetch, and a token that the cached key does not verify is
\* rejected without one: a token signed with other key material under a
\* cached kid stays rejected
C27_NoRefetch ==
    /\ [][\A e \in keys : e \in keys']_vars
    /\ [](\A g \in Goroutines :
            /\ pc[g] = "fetch" => ~Cached(call[g].kid)
            /\ (call[g].fetches = 1 /\ ~call[g].stored) => ~Cached(call[g].kid)
            /\ (Done(g) /\ call[g].lookup = "hit")
                => /\ call[g].fetches = 0
                   /\ call[g].key = CachedKey(call[g].kid)
                   /\ PubKey(TokSig(g)) # CachedKey(call[g].kid) => Rejected(g))

\* after a validation for the kid had succeeded, a token signed with other
\* key material under that kid was rejected from the cache, with no fetch
C27_Witness ==
    \E g \in Goroutines :
        /\ Done(g)
        /\ call[g].priorOK
        /\ call[g].lookup = "hit"
        /\ call[g].fetches = 0
        /\ TokAlg(g) = "RS256"
        /\ PubKey(TokSig(g)) # CachedKey(call[g].kid)
        /\ call[g].cause = "signature is invalid"
        /\ Rejected(g)

\* the token of g fails the parse of the compact form, or its header has no
\* kid that is a string
Malformed(g) ==
    /\ call[g].validateCalls = 1
    /\ \/ ~ParseUnverified(call[g].token).ok
       \/ ~IsString(ParseUnverified(call[g].token).kid)

\* C28: a token that does not parse, or whose header has no kid of type
\* string, is rejected by a validation that looks nothing up in the cache and
\* fetches nothing, and the step that rejects it leaves the cache as it was
C28_MalformedCostNothing ==
    /\ [](\A g \in Goroutines :
            Malformed(g)
                => /\ Rejected(g)
                   /\ call[g].err \in {"failed to parse token", "token missing kid header"}
                   /\ call[g].lookup = "none"
                   /\ call[g].fetches = 0
                   /\ ~call[g].resolved
                   /\ ~call[g].stored
                   /\ pc[g] = "done")
    /\ [][\A g \in Goroutines :
            (pc[g] = "idle" /\ Malformed(g)') => keys' = keys]_vars

\* a token without a kid was rejected while the cache held a key
C28_Witness ==
    \E g \in Goroutines :
        /\ Done(g)
        /\ Malformed(g)
        /\ call[g].err = "token missing kid header"
        /\ keys # {}

\* the first list is the beginning of the second
IsPrefix(a, b) == Len(a) <= Len(b) /\ \A i \in 1..Len(a) : a[i] = b[i]

\* C29: the store grows only by the message of the goroutine that holds the
\* write lock, put at its end, while no goroutine holds a read lock; every
\* list that GetAll returned is a beginning of the store's messages, and
\* stays as it was returned whatever is added afterwards
C29_Snapshots ==
    /\ [](\A h \in Goroutines :
            GotMessages(h) => IsPrefix(mcall[h].result, messages))
    /\ [][\A h \in Goroutines :
            (GotMessages(h) /\ GotMessages(h)') => mcall'[h].result = mcall[h].result]_vars
    /\ [][messages' # messages
            => /\ mutex.writer \in Goroutines
               /\ mutex.readers = {}
               /\ messages' = Append(messages, mcall[mutex.writer].message)]_vars

\* a list returned by GetAll is shorter than the store, to which a message
\* was added after the list was returned
C29_Witness ==
    \E h \in Goroutines :
        /\ GotMessages(h)
        /\ Len(mcall[h].result) = 1
        /\ Len(messages) >= 2
        /\ IsPrefix(mcall[h].result, messages)

\* goroutine h answered 201 for the e-mail address
Created(h, email) ==
    upc[h] = "done" /\ ucall[h].status = 201 /\ ucall[h].user.email = email

\* C30: of the requests that create a user for one e-mail address at most
\* one answers 201, no Create replaces a stored user, and no goroutine
\* writes the map of the store while another reads or writes it
C30_EmailUniqueness ==
    /\ \A h1, h2 \in Goroutines, e \in Emails :
        (Created(h1, e) /\ Created(h2, e)) => h1 = h2
    /\ \A h \in Goroutines :
        upc[h] = "create" => ~\E u \in users : u.email = ucall[h].user.email
    /\ ~UserMapRace
    /\ ~crashed

====
